---- MODULE Spec2Model ----
(***************************************************************************)
(* State-machine model of the stock-control App component                  *)
(* (src/unnamed/part_000): the Gemini caller with its retry loop, the      *)
(* expiration classifier, the urgent-alert lifecycle, the common-name      *)
(* import and the item forms.                                              *)
(***************************************************************************)
EXTENDS Integers, Sequences, FiniteSets, TLC

VARIABLES
    \* ---- generateGeminiContent ----
    gemInFlight,        \* history: invocations started and not yet returned
    geminiLoading,      \* useState(false)
    geminiResponse,     \* useState(null): [tpl, arg]
    showGeminiModal,    \* useState(false)
    gemPc,              \* position of the async function: idle / fetch / sleep
    gemI,               \* loop variable i
    gemDelay,           \* local delay
    gemLog,             \* outcomes of the fetches of the current invocation
    gemSleeps,          \* delays slept during the current invocation
    gemResult,          \* what the current invocation passed to setGeminiResponse last
    gemSeen,            \* <<cause, template>> of the failed invocations so far
    \* ---- the clock and one call of checkExpirationStatus ----
    now,                \* new Date().getTime(), ms
    clsDate,            \* new Date(dateString).getTime(), ms
    clsThreshold,       \* thresholdDays
    clsOut,             \* the value returned: [status, days], or NoResult
    \* ---- one evaluation of uniqueItemNames ----
    unify,              \* [stock, curated]: the names of items and commonNames;
                        \* [out]: the value computed; [stockAfter, curatedAfter]
    \* ---- identity and the store subscriptions ----
    userId,             \* useState(null)
    isAuthReady,        \* useState(false)
    authPc,             \* init / signingIn / done: the onAuthStateChanged flow
    authNotify,         \* an onAuthStateChanged(user) call is due after sign-in
    stockSub,           \* the stock_items listener: none / open / failed
    namesSub,           \* the common_names listener: none / open / failed
    \* ---- projections and the alert ----
    items,              \* useState([])
    urgentItems,        \* the useMemo value
    loading,            \* useState(true)
    errorMessage,       \* useState(null)
    showUrgentModal,    \* useState(false)
    alertPhase,         \* history: 1 alert acknowledged, 2 urgent set then
                        \* emptied, 3 urgent set then non-empty again
    \* ---- the name import ----
    showImportModal,    \* useState(false)
    importData,         \* useState(''): a sequence of characters
    impPc,              \* idle / commit: handleImport awaiting batch.commit()
    impBatch,           \* the batch: <<docId, name>> in the order of batch.set
    impErrorCount,      \* errorCount of the import in flight
    cnStore,            \* the common_names collection: a set of <<docId, name>>
    impText,            \* the text the import in flight was started with
    impDone,            \* the committed imports: [text, store after the commit]
    \* ---- the item forms and the stock_items collection ----
    newItem,            \* useState({name: '', quantity: 1, ...})
    editingItem,        \* useState(null)
    commonNames,        \* useState([]): the names of the last snapshot
    stockDocs,          \* the stock_items collection
    pending,            \* the store writes in flight
    nextId,             \* the id addDoc gives to the next document
    issued              \* how many item writes (addDoc, updateDoc) were started

authVars == <<userId, isAuthReady, authPc, authNotify, stockSub, namesSub>>
alertVars == <<items, urgentItems, loading, errorMessage, showUrgentModal, alertPhase>>
impVars == <<showImportModal, importData, impPc, impBatch, impErrorCount, cnStore,
             impText, impDone>>

clsVars == <<clsDate, clsThreshold, clsOut, unify>>

gemVars == <<gemInFlight, geminiLoading, geminiResponse, showGeminiModal, gemPc, gemI,
             gemDelay, gemLog, gemSleeps, gemResult, gemSeen>>

formVars == <<newItem, editingItem, commonNames, stockDocs, pending, nextId, issued>>

vars == <<gemVars, now, clsVars, authVars, alertVars, impVars, formVars>>
notGem == <<now, clsVars, authVars, alertVars, impVars, formVars>>
notForm == <<gemVars, now, clsVars, authVars, alertVars, impVars>>

Last(s) == s[Len(s)]

----------------------------------------------------------------------------
(* The Gemini caller: generateGeminiContent.                                *)

maxRetries == 3
InitialDelay == 1000

\* What the remote service can answer to one fetch: the fetch rejects
\* (network failure), or a response with a status, a body and a statusText.
\* Bodies: "bad" is not JSON; "text" carries candidates[0].content.parts[0].text;
\* "msg" carries error.message; "none" is JSON with neither.
Statuses == {200, 429, 500}
Bodies == {"bad", "text", "msg", "none"}
StatusTexts == {"", "st"}
Outcomes ==
    {[t |-> "net", status |-> 0, body |-> "bad", statusText |-> ""]}
    \cup [t : {"http"}, status : Statuses, body : Bodies, statusText : StatusTexts]

ResponseOk(o) == o.status >= 200 /\ o.status <= 299

NullResponse == [tpl |-> "null", arg |-> ""]
\* result.candidates?.[0]?.content?.parts?.[0]?.text || "No se pudo generar una respuesta."
SuccessText(o) ==
    IF o.body = "text" THEN [tpl |-> "text", arg |-> "generated"]
    ELSE [tpl |-> "No se pudo generar una respuesta.", arg |-> ""]
\* `Error: ${errorResult.error?.message || response.statusText}`
ErrorText(o) ==
    [tpl |-> "Error: ", arg |-> IF o.body = "msg" THEN "message" ELSE o.statusText]
ConnectionText == [tpl |-> "Error de conexion con el servicio de IA.", arg |-> ""]

\* for (let i = 0; i < maxRetries; i++)
LoopContinuesOff(k) == k <= maxRetries
LoopContinues(k) == k < maxRetries

\* i < maxRetries - 1, the guard of both retry branches
RetryAllowedOff(k) == k <= maxRetries - 1
RetryAllowed(k) == k < maxRetries - 1

\* response.json() rejects when the body is not JSON
JsonThrows(o) == o.body = "bad"

\* Which branch of the loop body one fetch outcome takes.
\*   "success": response.ok and the body parsed      -> setGeminiResponse, break
\*   "retry429": status 429 with retries left        -> sleep, delay *= 2
\*   "error":   any other response, body parsed      -> setGeminiResponse, break
\*   "catch":   fetch or response.json() threw
Branch(o, k) ==
    IF o.t = "net" THEN "catch"
    ELSE IF ResponseOk(o) THEN (IF JsonThrows(o) THEN "catch" ELSE "success")
    ELSE IF o.status = 429 /\ RetryAllowed(k) THEN "retry429"
    ELSE IF JsonThrows(o) THEN "catch" ELSE "error"

\* The cause of a failed invocation, read off the outcomes of its attempts.
Is429(o) == o.t = "http" /\ o.status = 429
IsNet(o) == o.t = "net"
IsTerminalStatus(o) == o.t = "http" /\ ~ResponseOk(o) /\ o.status # 429
Cause(log) ==
    IF Len(log) = maxRetries /\ (\A n \in 1..Len(log) : Is429(log[n]))
    THEN "rate-limited"
    ELSE IF Len(log) = maxRetries /\ (\A n \in 1..Len(log) : IsNet(log[n]))
    THEN "network"
    ELSE IF Len(log) > 0 /\ IsTerminalStatus(Last(log)) THEN "non-retryable"
    ELSE "other"
IsFailure(r) == r.tpl \in {"Error: ", ConnectionText.tpl}

GemInit ==
    /\ geminiLoading = FALSE
    /\ geminiResponse = NullResponse
    /\ showGeminiModal = FALSE
    /\ gemPc = "idle"
    /\ gemI = 0
    /\ gemDelay = InitialDelay
    /\ gemLog = <<>>
    /\ gemSleeps = <<>>
    /\ gemResult = NullResponse
    /\ gemSeen = {}
    /\ gemInFlight = 0

\* Both Gemini buttons are disabled={geminiLoading}.
GeminiButtonsEnabledOff == TRUE
GeminiButtonsEnabled == ~geminiLoading

\* generateUsageSuggestion / generateActionPlan -> generateGeminiContent, up to
\* the first await.  The position and the locals are those of the invocation
\* started last.
GeminiStart ==
    /\ GeminiButtonsEnabled
    /\ gemInFlight' = gemInFlight + 1
    /\ geminiLoading' = TRUE
    /\ geminiResponse' = NullResponse
    /\ gemI' = 0
    /\ gemDelay' = InitialDelay
    /\ gemLog' = <<>>
    /\ gemSleeps' = <<>>
    /\ gemResult' = NullResponse
    /\ gemPc' = "fetch"          \* i = 0 < maxRetries
    /\ UNCHANGED <<showGeminiModal, gemSeen>>
    /\ UNCHANGED notGem

\* The code after the loop: setGeminiLoading(false); setShowGeminiModal(true).
GeminiFinish(resp, log) ==
    /\ geminiResponse' = resp
    /\ gemResult' = resp
    /\ geminiLoading' = FALSE
    /\ showGeminiModal' = TRUE
    /\ gemPc' = "idle"
    /\ gemInFlight' = gemInFlight - 1
    /\ gemSeen' = IF IsFailure(resp) /\ Cause(log) # "other"
                  THEN gemSeen \cup {<<Cause(log), resp.tpl>>}
                  ELSE gemSeen

\* One iteration of the loop: the fetch settles with outcome o.
GeminiFetch(o) ==
    /\ gemPc = "fetch"
    /\ UNCHANGED notGem
    /\ gemLog' = Append(gemLog, o)
    /\ LET b == Branch(o, gemI)
           log == Append(gemLog, o)
       IN  CASE b = "success" ->
                  /\ GeminiFinish(SuccessText(o), log)
                  /\ UNCHANGED <<gemI, gemDelay, gemSleeps>>
             [] b = "error" ->
                  /\ GeminiFinish(ErrorText(o), log)
                  /\ UNCHANGED <<gemI, gemDelay, gemSleeps>>
             [] b = "retry429" \/ (b = "catch" /\ RetryAllowed(gemI)) ->
                  /\ gemPc' = "sleep"
                  /\ gemSleeps' = Append(gemSleeps, gemDelay)
                  /\ UNCHANGED <<gemI, gemDelay, geminiLoading, geminiResponse,
                                 showGeminiModal, gemResult, gemSeen, gemInFlight>>
             [] OTHER ->   \* catch on the last attempt; i++ then the loop test
                  /\ IF LoopContinues(gemI + 1)
                     THEN /\ gemPc' = "fetch"
                          /\ geminiResponse' = ConnectionText
                          /\ gemResult' = ConnectionText
                          /\ UNCHANGED <<geminiLoading, showGeminiModal, gemSeen,
                                         gemInFlight>>
                     ELSE GeminiFinish(ConnectionText, log)
                  /\ gemI' = gemI + 1
                  /\ UNCHANGED <<gemDelay, gemSleeps>>

\* The setTimeout resolves: delay *= 2; i++; the loop test.
GeminiWake ==
    /\ gemPc = "sleep"
    /\ UNCHANGED notGem
    /\ gemDelay' = gemDelay * 2
    /\ gemI' = gemI + 1
    /\ IF LoopContinues(gemI + 1)
       THEN /\ gemPc' = "fetch"
            /\ UNCHANGED <<geminiLoading, geminiResponse, showGeminiModal,
                           gemResult, gemSeen, gemInFlight>>
       ELSE GeminiFinish(geminiResponse, gemLog)
    /\ UNCHANGED <<gemLog, gemSleeps>>

\* GeminiResponseModal.handleClose
GeminiModalClose ==
    /\ showGeminiModal
    /\ UNCHANGED notGem
    /\ geminiResponse' = NullResponse
    /\ showGeminiModal' = FALSE
    /\ UNCHANGED <<geminiLoading, gemPc, gemI, gemDelay, gemLog, gemSleeps,
                   gemResult, gemSeen, gemInFlight>>

GemNext ==
    \/ GeminiStart
    \/ \E o \in Outcomes : GeminiFetch(o)
    \/ GeminiWake
    \/ GeminiModalClose

----------------------------------------------------------------------------
(* The expiration classifier: checkExpirationStatus.                        *)

MS_PER_DAY == 1000 * 60 * 60 * 24

\* Math.ceil(a / b) for b > 0
CeilDiv(a, b) == -((-a) \div b)

\* The status branches of checkExpirationStatus.
StatusOfOff(diffDays, thresholdDays) ==
    IF diffDays < 0 THEN "Expired"
    ELSE IF diffDays < thresholdDays THEN "Warning"
    ELSE "OK"
StatusOf(diffDays, thresholdDays) ==
    IF diffDays < 0 THEN "Expired"
    ELSE IF diffDays <= thresholdDays THEN "Warning"
    ELSE "OK"

\* checkExpirationStatus(dateString, thresholdDays) evaluated at currentTime,
\* with expirationTime = new Date(dateString).getTime().
checkExpirationStatus(expirationTime, thresholdDays, currentTime) ==
    LET diffMs == expirationTime - currentTime
        diffDays == CeilDiv(diffMs, MS_PER_DAY)
    IN  [status |-> StatusOf(diffDays, thresholdDays), days |-> diffDays]

NoResult == [status |-> "none", days |-> 0]

\* Inputs of the classifier: times on a quarter-day grid around the origin.
MaxOffsetDays == 3
MaxThreshold == 3
QuarterDay == MS_PER_DAY \div 4
GridTimes == {q * QuarterDay : q \in (-4 * MaxOffsetDays)..(4 * MaxOffsetDays)}

NoUnify == [stock |-> <<>>, curated |-> <<>>, out |-> <<>>, done |-> FALSE,
            stockAfter |-> <<>>, curatedAfter |-> <<>>]
ClsIdle ==
    /\ unify = NoUnify
    /\ clsDate = 0
    /\ clsThreshold = 1
    /\ clsOut = NoResult

ClsDraw ==
    /\ unify = NoUnify
    /\ now \in {q * QuarterDay : q \in 0..3}
    /\ clsDate \in GridTimes
    /\ clsThreshold \in 1..MaxThreshold
    /\ clsOut = NoResult

Classify ==
    /\ clsOut = NoResult
    /\ clsOut' = checkExpirationStatus(clsDate, clsThreshold, now)
    /\ UNCHANGED <<clsDate, clsThreshold, unify, now>>
    /\ UNCHANGED <<gemVars, authVars, alertVars, impVars, formVars>>

----------------------------------------------------------------------------
(* Text, as sequences of one-character strings.                             *)

Whitespace == {" ", "\t", "\n"}

RECURSIVE TrimStart(_)
TrimStart(s) ==
    IF s # <<>> /\ Head(s) \in Whitespace THEN TrimStart(Tail(s)) ELSE s
RECURSIVE TrimEnd(_)
TrimEnd(s) ==
    IF s # <<>> /\ Last(s) \in Whitespace THEN TrimEnd(SubSeq(s, 1, Len(s) - 1)) ELSE s
\* String.prototype.trim
Trim(s) == TrimEnd(TrimStart(s))

\* String.prototype.split(sep) for a one-character separator: the pieces
\* between the separators, one piece (the whole string) when there is none.
RECURSIVE SplitFrom(_, _, _)
SplitFrom(s, sep, piece) ==
    IF s = <<>> THEN <<piece>>
    ELSE IF Head(s) = sep THEN <<piece>> \o SplitFrom(Tail(s), sep, <<>>)
    ELSE SplitFrom(Tail(s), sep, Append(piece, Head(s)))
Split(s, sep) == SplitFrom(s, sep, <<>>)

\* name.replace(/\//g, '_')
sanitizeDocIdOff(name) == name
sanitizeDocId(name) ==
    [n \in 1..Len(name) |-> IF name[n] = "/" THEN "_" ELSE name[n]]

SeqContains(s, x) == \E n \in 1..Len(s) : s[n] = x

----------------------------------------------------------------------------
(* Stock items: the stored documents and their projection.                  *)

DEFAULT_ALARM_DAYS == 7
CATEGORIES ==
    <<"General", "Bebidas", "Alimentos Secos", "Lacteos", "Fiambres y Embutidos",
      "Quesos", "Refrigerados", "Congelados", "Limpieza", "Otros">>
FirstCategory == "General"

\* new Date('YYYY-MM-DD').getTime(): UTC midnight of the day; the stored
\* expirationDate is <<day>>, the day counted from the origin of `now`.
DateTime(expirationDate) == expirationDate[1] * MS_PER_DAY

\* The snapshot handler's map: quantity, alarmDays and category are rewritten.
ProjectDoc(doc) ==
    [doc EXCEPT !.alarmDays = IF doc.alarmDays = 0 THEN DEFAULT_ALARM_DAYS
                              ELSE doc.alarmDays,
                !.category = IF doc.category = "" THEN FirstCategory
                             ELSE doc.category]

\* fetchedItems.sort((a, b) => time(a) - time(b)): a stable sort by date.
RECURSIVE InsertByDate(_, _)
InsertByDate(sorted, it) ==
    IF sorted = <<>> THEN <<it>>
    ELSE IF DateTime(it.expirationDate) < DateTime(Head(sorted).expirationDate)
         THEN <<it>> \o sorted
         ELSE <<Head(sorted)>> \o InsertByDate(Tail(sorted), it)
RECURSIVE SortByDate(_)
SortByDate(s) ==
    IF s = <<>> THEN <<>>
    ELSE InsertByDate(SortByDate(SubSeq(s, 1, Len(s) - 1)), Last(s))

MapProject(docs) == [n \in 1..Len(docs) |-> ProjectDoc(docs[n])]

\* items.filter(item => status is Expired or Warning), evaluated at time t.
IsUrgent(item, t) ==
    checkExpirationStatus(DateTime(item.expirationDate), item.alarmDays, t).status
        \in {"Expired", "Warning"}
RECURSIVE FilterUrgent(_, _)
FilterUrgent(s, t) ==
    IF s = <<>> THEN <<>>
    ELSE IF IsUrgent(Head(s), t) THEN <<Head(s)>> \o FilterUrgent(Tail(s), t)
    ELSE FilterUrgent(Tail(s), t)

\* The effect with dependencies [urgentItems.length, loading]: it runs after a
\* render in which one of them changed, and then may set showUrgentModal.
\* `base` is the value the handler itself leaves in showUrgentModal.
UrgentModalEffectOff(base) ==
    showUrgentModal' =
        IF loading' # loading /\ Len(urgentItems') > 0 /\ ~loading'
        THEN TRUE ELSE base
UrgentModalEffect(base) ==
    showUrgentModal' =
        IF /\ (Len(urgentItems') # Len(urgentItems) \/ loading' # loading)
           /\ Len(urgentItems') > 0 /\ ~loading'
        THEN TRUE ELSE base

NoMessage == [msg |-> "null", names |-> 0, ignored |-> 0]
Message(m) == [msg |-> m, names |-> 0, ignored |-> 0]

----------------------------------------------------------------------------
(* The autocomplete list: uniqueItemNames.                                  *)

\* a.localeCompare(b) < 0 on texts over " ", "a", "b": the characters in the
\* order space, a, b, a proper prefix first.
CharRank(c) == IF c = " " THEN 0 ELSE IF c = "a" THEN 1 ELSE 2
RECURSIVE NameBefore(_, _)
NameBefore(a, b) ==
    IF b = <<>> THEN FALSE
    ELSE IF a = <<>> THEN TRUE
    ELSE IF Head(a) # Head(b) THEN CharRank(Head(a)) < CharRank(Head(b))
    ELSE NameBefore(Tail(a), Tail(b))

\* array.sort((a, b) => a.localeCompare(b)): a stable sort.
RECURSIVE InsertByName(_, _)
InsertByName(sorted, name) ==
    IF sorted = <<>> THEN <<name>>
    ELSE IF NameBefore(name, Head(sorted)) THEN <<name>> \o sorted
    ELSE <<Head(sorted)>> \o InsertByName(Tail(sorted), name)
RECURSIVE SortByName(_)
SortByName(s) ==
    IF s = <<>> THEN <<>>
    ELSE InsertByName(SortByName(SubSeq(s, 1, Len(s) - 1)), Last(s))

\* new Set(array), in insertion order.
RECURSIVE SetOfArray(_, _)
SetOfArrayOff(array, acc) == acc \o array
SetOfArray(array, acc) ==
    IF array = <<>> THEN acc
    ELSE SetOfArray(Tail(array),
                    IF \E n \in 1..Len(acc) : acc[n] = Head(array) THEN acc
                    ELSE Append(acc, Head(array)))

\* uniqueItemNames, from the names of items and commonNames.
uniqueItemNames(stock, curated) ==
    LET namesFromStock == [n \in 1..Len(stock) |-> Trim(stock[n])]
        combinedNames == SetOfArray(namesFromStock \o curated, <<>>)
    IN  SortByName(combinedNames)

\* The inputs of one evaluation: up to MaxNames item names, up to MaxNames
\* curated names without repetition.
MaxNames == 2
StockNames == {<<"a">>, <<" ", "a">>, <<"b", " ">>, <<"a", "b">>}
CuratedNames == {<<"a">>, <<"b">>, <<"a", " ", "b">>}
UnifyDraw ==
    /\ unify \in [stock : UNION {[1..n -> StockNames] : n \in 0..MaxNames},
                  curated : {c \in UNION {[1..n -> CuratedNames] : n \in 0..MaxNames} :
                               \A j \in 1..Len(c), k \in 1..Len(c) : j # k => c[j] # c[k]},
                  out : {<<>>}, done : {FALSE},
                  stockAfter : {<<>>}, curatedAfter : {<<>>}]
\* The useMemo callback runs: map and Array.from build new arrays, and sort
\* sorts the new array in place.
Unify ==
    /\ ~unify.done
    /\ unify' = [unify EXCEPT !.out = uniqueItemNames(unify.stock, unify.curated),
                              !.done = TRUE,
                              !.stockAfter = unify.stock,
                              !.curatedAfter = unify.curated]
    /\ UNCHANGED <<clsDate, clsThreshold, clsOut, now>>
    /\ UNCHANGED <<gemVars, authVars, alertVars, impVars, formVars>>

----------------------------------------------------------------------------
(* Identity: the onAuthStateChanged callback and authenticate().            *)

\* The two subscription effects, dependencies [db, isAuthReady, userId]:
\* they run when a dependency changed and all are set; the stock one calls
\* setLoading(true).
SubscribeEffectsOff ==
    IF isAuthReady'
       /\ (isAuthReady' # isAuthReady \/ userId' # userId)
    THEN /\ stockSub' = "open"
         /\ namesSub' = "open"
         /\ loading' = TRUE
    ELSE UNCHANGED <<stockSub, namesSub, loading>>
SubscribeEffects ==
    IF isAuthReady' /\ userId' # "none"
       /\ (isAuthReady' # isAuthReady \/ userId' # userId)
    THEN /\ stockSub' = "open"
         /\ namesSub' = "open"
         /\ loading' = TRUE
    ELSE UNCHANGED <<stockSub, namesSub, loading>>

\* onAuthStateChanged calls back with a signed-in user: setUserId(user.uid).
AuthStateUser ==
    /\ authPc = "init" \/ authNotify
    /\ userId' = "uid"
    /\ authNotify' = FALSE
    /\ authPc' = IF authPc = "init" THEN "done" ELSE authPc
    /\ UNCHANGED isAuthReady
    /\ SubscribeEffects
    /\ UNCHANGED <<items, urgentItems, alertPhase, errorMessage>>
    /\ UrgentModalEffect(showUrgentModal)
    /\ UNCHANGED <<gemVars, now, clsVars, impVars, formVars>>

\* onAuthStateChanged calls back with null: authenticate() starts a sign-in.
AuthStateNull ==
    /\ authPc = "init"
    /\ authPc' = "signingIn"
    /\ UNCHANGED <<userId, isAuthReady, authNotify, stockSub, namesSub>>
    /\ UNCHANGED <<gemVars, now, clsVars, alertVars, impVars, formVars>>

\* The sign-in resolves: setIsAuthReady(true); the listener is notified of the
\* new user before or after this continuation.
SignInOk ==
    /\ authPc = "signingIn"
    /\ authPc' = "done"
    /\ authNotify' = (userId = "none")
    /\ isAuthReady' = TRUE
    /\ UNCHANGED userId
    /\ SubscribeEffects
    /\ UNCHANGED <<items, urgentItems, alertPhase, errorMessage>>
    /\ UrgentModalEffect(showUrgentModal)
    /\ UNCHANGED <<gemVars, now, clsVars, impVars, formVars>>

\* The listener is notified of the new user while the sign-in is still awaited.
AuthStateUserEarly ==
    /\ authPc = "signingIn"
    /\ userId = "none"
    /\ userId' = "uid"
    /\ UNCHANGED <<isAuthReady, authPc, authNotify>>
    /\ SubscribeEffects
    /\ UNCHANGED <<items, urgentItems, alertPhase, errorMessage>>
    /\ UrgentModalEffect(showUrgentModal)
    /\ UNCHANGED <<gemVars, now, clsVars, impVars, formVars>>

\* The sign-in rejects: setUserId(crypto.randomUUID()); setIsAuthReady(true).
SignInFail ==
    /\ authPc = "signingIn"
    /\ userId = "none"
    /\ authPc' = "done"
    /\ userId' = "random"
    /\ isAuthReady' = TRUE
    /\ UNCHANGED authNotify
    /\ SubscribeEffects
    /\ UNCHANGED <<items, urgentItems, alertPhase, errorMessage>>
    /\ UrgentModalEffect(showUrgentModal)
    /\ UNCHANGED <<gemVars, now, clsVars, impVars, formVars>>

----------------------------------------------------------------------------
(* The stock subscription, the clock and the alert.                         *)

\* A snapshot of stock_items arrives: the documents, in document order.
StockSnapshot(docs) ==
    /\ stockSub = "open"
    /\ items' = SortByDate(MapProject(docs))
    /\ urgentItems' = FilterUrgent(items', now)
    /\ loading' = FALSE
    /\ alertPhase' = IF alertPhase = 1 /\ urgentItems' = <<>> THEN 2
                     ELSE IF alertPhase = 2 /\ urgentItems' # <<>> THEN 3
                     ELSE alertPhase
    /\ UrgentModalEffect(showUrgentModal)
    /\ UNCHANGED errorMessage
    /\ UNCHANGED <<gemVars, now, clsVars, authVars, impVars, formVars>>

\* The listener's error callback.
StockSnapshotError ==
    /\ stockSub = "open"
    /\ stockSub' = "failed"
    /\ errorMessage' = Message("No se pudieron cargar los articulos.")
    /\ loading' = FALSE
    /\ UNCHANGED <<items, urgentItems, alertPhase>>
    /\ UrgentModalEffect(showUrgentModal)
    /\ UNCHANGED <<userId, isAuthReady, authPc, authNotify, namesSub>>
    /\ UNCHANGED <<gemVars, now, clsVars, impVars, formVars>>

\* Time passes; nothing is rendered.
MaxTicks == 2
HalfDay == MS_PER_DAY \div 2
Tick ==
    /\ now < MaxTicks * HalfDay
    /\ now' = now + HalfDay
    /\ UNCHANGED <<gemVars, clsVars, authVars, alertVars, impVars, formVars>>

\* NotificationModal.handleClose; the modal is rendered when showUrgentModal
\* and urgentItems.length > 0, past the loading screen.
AckAlert ==
    /\ showUrgentModal /\ Len(urgentItems) > 0
    /\ ~(loading /\ ~isAuthReady)
    /\ showUrgentModal' = FALSE
    /\ alertPhase' = IF alertPhase = 0 THEN 1 ELSE alertPhase
    /\ UNCHANGED <<items, urgentItems, loading, errorMessage>>
    /\ UNCHANGED <<gemVars, now, clsVars, authVars, impVars, formVars>>

----------------------------------------------------------------------------
(* The name import: handleImport.                                           *)

\* const values = line.split('\t').length > 1 ? line.split('\t') : line.split(',');
\* const name = values[0]?.trim();
FirstField(line) ==
    IF Len(Split(line, "\t")) > 1 THEN Split(line, "\t")[1] ELSE Split(line, ",")[1]
LineName(line) == Trim(FirstField(line))

\* namesToSave.add(name): a Set keeps the first insertion of each value.
AddName(names, name) == IF SeqContains(names, name) THEN names ELSE Append(names, name)

\* The loop over the lines: namesToSave, successCount and errorCount.
RECURSIVE ScanLines(_, _)
ScanLines(lines, acc) ==
    IF lines = <<>> THEN acc
    ELSE LET name == LineName(Head(lines))
         IN  ScanLines(Tail(lines),
                 IF name # <<>>
                 THEN [acc EXCEPT !.names = AddName(acc.names, name),
                                  !.successCount = acc.successCount + 1]
                 ELSE [acc EXCEPT !.errorCount = acc.errorCount + 1])

\* importData.trim().split('\n')
ImportLines(text) == Split(Trim(text), "\n")

ParseImport(text) ==
    ScanLines(ImportLines(text), [names |-> <<>>, successCount |-> 0, errorCount |-> 0])

\* namesToSave.forEach(name => batch.set(doc(ref, sanitizeDocId(name)), {name}))
BatchOf(names) == [n \in 1..Len(names) |-> <<sanitizeDocId(names[n]), names[n]>>]

\* setDoc / batch.set on a document id: the document is created or replaced.
UpsertOff(store, w) ==
    store \cup {<<[n \in 1..(Cardinality(store) + 1) |-> "#"], w[2]>>}
Upsert(store, w) == {p \in store : p[1] # w[1]} \cup {w}
RECURSIVE ApplyBatch(_, _)
ApplyBatch(store, batch) ==
    IF batch = <<>> THEN store
    ELSE ApplyBatch(Upsert(store, Head(batch)), Tail(batch))

ImportReady == userId # "none" /\ Trim(importData) # <<>>

\* The "Importar Nombres Comunes" button, disabled={loading || !userId}.
OpenImportModal ==
    /\ ~(loading /\ ~isAuthReady)
    /\ ~loading /\ userId # "none"
    /\ ~showImportModal
    /\ showImportModal' = TRUE
    /\ errorMessage' = NoMessage
    /\ UNCHANGED <<importData, impPc, impBatch, impErrorCount, cnStore, impText, impDone>>
    /\ UNCHANGED <<items, urgentItems, alertPhase, loading, showUrgentModal>>
    /\ UNCHANGED <<gemVars, now, clsVars, authVars, formVars>>

\* ImportModal's Cancelar button, disabled={loading}.
CancelImport ==
    /\ showImportModal /\ ~loading
    /\ showImportModal' = FALSE
    /\ errorMessage' = NoMessage
    /\ UNCHANGED <<importData, impPc, impBatch, impErrorCount, cnStore, impText, impDone>>
    /\ UNCHANGED <<items, urgentItems, alertPhase, loading, showUrgentModal>>
    /\ UNCHANGED <<gemVars, now, clsVars, authVars, formVars>>

\* The textarea's onChange.
SetImportData(text) ==
    /\ showImportModal
    /\ ~(loading /\ ~isAuthReady)
    /\ importData # text
    /\ importData' = text
    /\ UNCHANGED <<showImportModal, impPc, impBatch, impErrorCount, cnStore, impText, impDone>>
    /\ UNCHANGED <<gemVars, now, clsVars, authVars, alertVars, formVars>>

\* handleImport up to await batch.commit().  The button is
\* disabled={loading || !importData.trim()}.
MaxImports == 2
HandleImport ==
    /\ showImportModal /\ ~loading /\ Trim(importData) # <<>>
    /\ impPc = "idle"
    /\ Len(impDone) < MaxImports
    /\ IF ~ImportReady
       THEN /\ errorMessage' = Message("No hay datos para importar o Firebase no esta listo.")
            /\ UNCHANGED <<impPc, impBatch, impErrorCount, impText, loading>>
       ELSE /\ loading' = TRUE
            /\ errorMessage' = NoMessage
            /\ impPc' = "commit"
            /\ impText' = importData
            /\ impBatch' = BatchOf(ParseImport(importData).names)
            /\ impErrorCount' = ParseImport(importData).errorCount
    /\ UNCHANGED <<items, urgentItems, alertPhase>>
    /\ UrgentModalEffect(showUrgentModal)
    /\ UNCHANGED <<showImportModal, importData, cnStore, impDone>>
    /\ UNCHANGED <<gemVars, now, clsVars, authVars, formVars>>

\* batch.commit() resolves: the whole batch is applied at once.
ImportCommitOk ==
    /\ impPc = "commit"
    /\ impPc' = "idle"
    /\ cnStore' = ApplyBatch(cnStore, impBatch)
    /\ importData' = <<>>
    /\ showImportModal' = FALSE
    /\ errorMessage' = [msg |-> "Importacion de nombres completada",
                        names |-> Len(impBatch), ignored |-> impErrorCount]
    /\ loading' = FALSE
    /\ impDone' = Append(impDone, [text |-> impText, store |-> cnStore'])
    /\ UNCHANGED <<items, urgentItems, alertPhase>>
    /\ UrgentModalEffect(showUrgentModal)
    /\ UNCHANGED <<impBatch, impErrorCount, impText>>
    /\ UNCHANGED <<gemVars, now, clsVars, authVars, formVars>>

\* batch.commit() rejects: nothing is written.
ImportCommitFailOff ==
    /\ impPc = "commit"
    /\ impPc' = "idle"
    /\ errorMessage' = Message("Error grave al guardar los nombres comunes en Firestore.")
    /\ loading' = FALSE
    /\ cnStore' = Upsert(cnStore, Head(impBatch))
    /\ UNCHANGED <<items, urgentItems, alertPhase>>
    /\ UrgentModalEffect(showUrgentModal)
    /\ UNCHANGED <<showImportModal, importData, impBatch, impErrorCount,
                   impText, impDone>>
    /\ UNCHANGED <<gemVars, now, clsVars, authVars, formVars>>
ImportCommitFail ==
    /\ impPc = "commit"
    /\ impPc' = "idle"
    /\ errorMessage' = Message("Error grave al guardar los nombres comunes en Firestore.")
    /\ loading' = FALSE
    /\ UNCHANGED <<items, urgentItems, alertPhase>>
    /\ UrgentModalEffect(showUrgentModal)
    /\ UNCHANGED <<showImportModal, importData, impBatch, impErrorCount, cnStore,
                   impText, impDone>>
    /\ UNCHANGED <<gemVars, now, clsVars, authVars, formVars>>

----------------------------------------------------------------------------
(* The item forms: handleInputChange, handleEditChange, addItem, updateItem, *)
(* saveCommonName.                                                          *)

\* The new-item draft of useState and of the reset after a successful add.
EmptyDraft ==
    [name |-> <<>>, quantity |-> 1, expirationDate |-> <<>>,
     alarmDays |-> DEFAULT_ALARM_DAYS, category |-> FirstCategory]
NoEdit == [id |-> 0]

\* parseInt(value, 10) || 1: the input is <<n>> when parseInt reads n from
\* it and <<>> when parseInt gives NaN.
ParseIntOr1(value) == IF value = <<>> THEN 1 ELSE IF value[1] = 0 THEN 1 ELSE value[1]
Max(a, b) == IF a >= b THEN a ELSE b
\* Math.max(1, parseInt(value, 10) || 1)
CoerceNumberOff(value) == ParseIntOr1(value)
CoerceNumber(value) == Max(1, ParseIntOr1(value))

\* What one change event can carry, per field.
NameInputs == {<<>>, <<" ", "a">>}
DateInputs == {<<>>, <<1>>}
NumberInputs == {<<>>, <<0>>, <<-1>>, <<2>>}

\* The validation of addItem and updateItem: true when the draft is refused.
DraftRefused(d) ==
    d.name = <<>> \/ d.expirationDate = <<>> \/ d.quantity <= 0 \/ d.alarmDays <= 0

\* The object handed to addDoc / updateDoc.
Payload(d) ==
    [name |-> Trim(d.name), quantity |-> d.quantity,
     expirationDate |-> d.expirationDate, alarmDays |-> d.alarmDays,
     category |-> d.category]
StoredDoc(id, p) ==
    [id |-> id, name |-> p.name, quantity |-> p.quantity,
     expirationDate |-> p.expirationDate, alarmDays |-> p.alarmDays,
     category |-> p.category]

\* A write in flight: op is "add", "update" or "name"; cn is the commonNames
\* value of the render whose handler issued it; seq tells the calls of addDoc
\* and updateDoc apart (0 for setDoc, which is keyed by the name).
Write(op, id, p, cn) == [op |-> op, id |-> id, doc |-> p, cn |-> cn, seq |-> 0]

\* The documents of stock_items in document order.
RECURSIVE DocsInOrder(_)
DocsInOrder(docs) ==
    IF docs = {} THEN <<>>
    ELSE LET d == CHOOSE x \in docs : \A y \in docs : x.id <= y.id
         IN  <<d>> \o DocsInOrder(docs \ {d})

PastLoadingScreen == ~(loading /\ ~isAuthReady)

\* handleInputChange for the name and expirationDate fields.
HandleInputChangeText(field, value) ==
    /\ PastLoadingScreen
    /\ newItem[field] # value
    /\ newItem' = [newItem EXCEPT ![field] = value]
    /\ UNCHANGED <<editingItem, stockDocs, pending, nextId, issued, commonNames>>
    /\ UNCHANGED notForm

\* handleInputChange for the quantity and alarmDays fields.
HandleInputChangeNumber(field, value) ==
    /\ PastLoadingScreen
    /\ newItem' = [newItem EXCEPT ![field] = CoerceNumber(value)]
    /\ newItem' # newItem
    /\ UNCHANGED <<editingItem, stockDocs, pending, nextId, issued, commonNames>>
    /\ UNCHANGED notForm

\* The edit button of an item of the list: setEditingItem(item).
StartEdit(n) ==
    /\ PastLoadingScreen
    /\ n \in 1..Len(items)
    /\ editingItem.id # items[n].id
    /\ editingItem' = items[n]
    /\ UNCHANGED <<newItem, stockDocs, pending, nextId, issued, commonNames>>
    /\ UNCHANGED notForm

\* EditForm's Cancelar button: setEditingItem(null).  The form is rendered
\* in the row of the item being edited.
EditFormShown == editingItem # NoEdit /\ \E n \in 1..Len(items) : items[n].id = editingItem.id
CancelEdit ==
    /\ PastLoadingScreen /\ EditFormShown
    /\ editingItem' = NoEdit
    /\ UNCHANGED <<newItem, stockDocs, pending, nextId, issued, commonNames>>
    /\ UNCHANGED notForm

\* handleEditChange for the name and expirationDate fields.
HandleEditChangeText(field, value) ==
    /\ PastLoadingScreen /\ EditFormShown
    /\ editingItem[field] # value
    /\ editingItem' = [editingItem EXCEPT ![field] = value]
    /\ UNCHANGED <<newItem, stockDocs, pending, nextId, issued, commonNames>>
    /\ UNCHANGED notForm

\* handleEditChange for the quantity and alarmDays fields.
HandleEditChangeNumber(field, value) ==
    /\ PastLoadingScreen /\ EditFormShown
    /\ editingItem' = [editingItem EXCEPT ![field] = CoerceNumber(value)]
    /\ editingItem' # editingItem
    /\ UNCHANGED <<newItem, stockDocs, pending, nextId, issued, commonNames>>
    /\ UNCHANGED notForm

\* addItem up to await addDoc(...).  The submit button is
\* disabled={loading || !userId}.
MaxWrites == 2
AddItem ==
    /\ PastLoadingScreen
    /\ ~loading /\ userId # "none"
    /\ IF DraftRefused(newItem)
       THEN /\ errorMessage' =
                 Message("Por favor, complete todos los campos requeridos correctamente.")
            /\ errorMessage' # errorMessage
            /\ UNCHANGED <<pending, issued>>
       ELSE /\ issued < MaxWrites
            /\ issued' = issued + 1
            /\ errorMessage' = NoMessage
            /\ pending' = pending \cup
                 {[Write("add", 0, Payload(newItem), commonNames) EXCEPT !.seq = issued + 1]}
    /\ UNCHANGED <<newItem, editingItem, stockDocs, nextId, commonNames>>
    /\ UNCHANGED <<items, urgentItems, alertPhase, loading, showUrgentModal>>
    /\ UNCHANGED <<gemVars, now, clsVars, authVars, impVars>>

\* updateItem up to await updateDoc(...).
UpdateItem ==
    /\ PastLoadingScreen /\ EditFormShown
    /\ userId # "none"
    /\ IF DraftRefused(editingItem)
       THEN /\ errorMessage' =
                 Message("Por favor, complete todos los campos de edicion correctamente.")
            /\ errorMessage' # errorMessage
            /\ UNCHANGED <<pending, issued>>
       ELSE /\ issued < MaxWrites
            /\ issued' = issued + 1
            /\ errorMessage' = NoMessage
            /\ pending' = pending \cup
                 {[Write("update", editingItem.id, Payload(editingItem), commonNames)
                      EXCEPT !.seq = issued + 1]}
    /\ UNCHANGED <<newItem, editingItem, stockDocs, nextId, commonNames>>
    /\ UNCHANGED <<items, urgentItems, alertPhase, loading, showUrgentModal>>
    /\ UNCHANGED <<gemVars, now, clsVars, authVars, impVars>>

\* saveCommonName(name) up to await setDoc(...): the writes it starts.
SaveCommonName(name, cn) ==
    IF name # <<>> /\ Trim(name) # <<>> /\ Trim(name) \notin cn
    THEN {Write("name", 0, [EmptyDraft EXCEPT !.name = Trim(name)], cn)}
    ELSE {}

\* addDoc resolves: the document is stored; saveCommonName; the form is reset.
AddDocOk(w) ==
    /\ w \in pending /\ w.op = "add"
    /\ stockDocs' = stockDocs \cup {StoredDoc(nextId, w.doc)}
    /\ nextId' = nextId + 1
    /\ pending' = (pending \ {w}) \cup SaveCommonName(w.doc.name, w.cn)
    /\ newItem' = EmptyDraft
    /\ UNCHANGED <<editingItem, commonNames, issued>>
    /\ UNCHANGED notForm

\* updateDoc resolves: the document is rewritten (it must exist);
\* saveCommonName; setEditingItem(null).
UpdateDocOk(w) ==
    /\ w \in pending /\ w.op = "update"
    /\ \E d \in stockDocs : d.id = w.id
    /\ stockDocs' = {d \in stockDocs : d.id # w.id} \cup {StoredDoc(w.id, w.doc)}
    /\ pending' = (pending \ {w}) \cup SaveCommonName(w.doc.name, w.cn)
    /\ editingItem' = NoEdit
    /\ UNCHANGED <<newItem, nextId, issued, commonNames>>
    /\ UNCHANGED notForm

\* addDoc or updateDoc rejects: setErrorMessage.
ItemWriteFail(w) ==
    /\ w \in pending /\ w.op \in {"add", "update"}
    /\ pending' = pending \ {w}
    /\ errorMessage' = Message(IF w.op = "add" THEN "Error al guardar el articulo."
                                ELSE "Error al actualizar el articulo.")
    /\ UNCHANGED <<newItem, editingItem, stockDocs, nextId, issued, commonNames>>
    /\ UNCHANGED <<items, urgentItems, alertPhase, loading, showUrgentModal>>
    /\ UNCHANGED <<gemVars, now, clsVars, authVars, impVars>>

\* The setDoc of saveCommonName settles: stored under sanitizeDocId(name),
\* or dropped with a console message.
NameWriteDone(w, ok) ==
    /\ w \in pending /\ w.op = "name"
    /\ pending' = pending \ {w}
    /\ cnStore' = IF ok THEN Upsert(cnStore, <<sanitizeDocId(w.doc.name), w.doc.name>>)
                  ELSE cnStore
    /\ UNCHANGED <<newItem, editingItem, stockDocs, nextId, issued, commonNames>>
    /\ UNCHANGED <<showImportModal, importData, impPc, impBatch, impErrorCount,
                   impText, impDone>>
    /\ UNCHANGED <<gemVars, now, clsVars, authVars, alertVars>>

\* A snapshot of common_names arrives: setCommonNames(names).
NamesSnapshot ==
    /\ namesSub = "open"
    /\ commonNames' = {p[2] : p \in cnStore}
    /\ commonNames' # commonNames
    /\ UNCHANGED <<newItem, editingItem, stockDocs, pending, nextId, issued>>
    /\ UNCHANGED notForm

\* A snapshot of stock_items with the documents now stored: the first one
\* after subscribing (loading still true), or one after a change.
StoreSnapshot ==
    /\ loading \/ items # SortByDate(MapProject(DocsInOrder(stockDocs)))
    /\ StockSnapshot(DocsInOrder(stockDocs))

----------------------------------------------------------------------------
(* Initial states, inputs and specifications.                               *)

\* The component as first rendered.
AuthInit ==
    /\ userId = "none"
    /\ isAuthReady = FALSE
    /\ authPc = "init"
    /\ authNotify = FALSE
    /\ stockSub = "none"
    /\ namesSub = "none"
AlertInit ==
    /\ items = <<>>
    /\ urgentItems = <<>>
    /\ loading = TRUE
    /\ errorMessage = NoMessage
    /\ showUrgentModal = FALSE
    /\ alertPhase = 0
ImpInit ==
    /\ showImportModal = FALSE
    /\ importData = <<>>
    /\ impPc = "idle"
    /\ impBatch = <<>>
    /\ impErrorCount = 0
    /\ cnStore = {}
    /\ impText = <<>>
    /\ impDone = <<>>

\* The component once signed in, subscribed, and past the first (empty)
\* snapshot of stock_items.
AuthSignedIn ==
    /\ userId = "uid"
    /\ isAuthReady = TRUE
    /\ authPc = "done"
    /\ authNotify = FALSE
    /\ stockSub = "open"
    /\ namesSub = "open"
AlertLoaded ==
    /\ items = <<>>
    /\ urgentItems = <<>>
    /\ loading = FALSE
    /\ errorMessage = NoMessage
    /\ showUrgentModal = FALSE
    /\ alertPhase = 0

\* The documents a stock_items snapshot can carry: at most MaxItems documents,
\* in document order, each expiring on one of PoolDays.
MaxItems == 2
PoolDays == {0, 2, 5}
PoolDocs ==
    [id : 1..MaxItems, name : {<<"a">>}, quantity : {1},
     expirationDate : {<<d>> : d \in PoolDays}, alarmDays : {1},
     category : {FirstCategory}]
SnapshotPool ==
    {s \in UNION {[1..n -> PoolDocs] : n \in 0..MaxItems} :
        \A j \in 1..Len(s), k \in 1..Len(s) : j < k => s[j].id < s[k].id}

\* The texts typed into the import dialog in the main specification.
SpecTexts == {<<"a">>, <<"a", "\n", "a", "/">>}

Next ==
    \/ AuthStateUser
    \/ AuthStateNull
    \/ AuthStateUserEarly
    \/ SignInOk
    \/ SignInFail
    \/ \E docs \in SnapshotPool : StockSnapshot(docs)
    \/ StockSnapshotError
    \/ Tick
    \/ AckAlert
    \/ OpenImportModal
    \/ CancelImport
    \/ \E t \in SpecTexts : SetImportData(t)
    \/ HandleImport
    \/ ImportCommitOk
    \/ ImportCommitFail

FormInit ==
    /\ newItem = EmptyDraft
    /\ editingItem = NoEdit
    /\ commonNames = {}
    /\ stockDocs = {}
    /\ pending = {}
    /\ nextId = 1
    /\ issued = 0

Init == GemInit /\ ClsIdle /\ now = 0 /\ AuthInit /\ AlertInit /\ ImpInit /\ FormInit
Spec == Init /\ [][Next]_vars

\* The same, where the auth listener delivers its notifications, a sign-in
\* settles, an open subscription delivers a snapshot or an error, and a batch
\* commit settles.
SpecFair ==
    /\ Init /\ [][Next]_vars
    /\ WF_vars(AuthStateUser \/ AuthStateNull)
    /\ WF_vars(SignInOk \/ SignInFail)
    /\ WF_vars((\E docs \in SnapshotPool : loading /\ StockSnapshot(docs)) \/ StockSnapshotError)
    /\ WF_vars(ImportCommitOk \/ ImportCommitFail)

SpecGemini == Init /\ [][GemNext]_vars

\* The same, with every fetch settling (resolved or rejected) and every
\* setTimeout firing.
SpecGeminiFair ==
    /\ Init /\ [][GemNext]_vars
    /\ WF_vars(\E o \in Outcomes : GeminiFetch(o))
    /\ WF_vars(GeminiWake)

InitClassify == GemInit /\ ClsDraw /\ AuthInit /\ AlertInit /\ ImpInit /\ FormInit
SpecClassify == InitClassify /\ [][Classify]_vars

InitUnify ==
    /\ GemInit /\ AuthInit /\ AlertInit /\ ImpInit /\ FormInit
    /\ now = 0 /\ clsDate = 0 /\ clsThreshold = 1 /\ clsOut = NoResult
    /\ UnifyDraw
SpecUnify == InitUnify /\ [][Unify]_vars

FilledItem == [EmptyDraft EXCEPT !.name = <<"a">>]

\* The forms, from the component signed in and loaded.  The user works on one
\* form at a time: types into the new-item form while no item is being edited,
\* and opens an item for editing while the new-item form is empty.
AddFormFree == editingItem = NoEdit
EditFree == newItem = EmptyDraft
FormNext ==
    \/ (AddFormFree /\ \E v \in NameInputs : HandleInputChangeText("name", v))
    \/ (AddFormFree /\ \E v \in DateInputs : HandleInputChangeText("expirationDate", v))
    \/ (AddFormFree /\ \E f \in {"quantity", "alarmDays"}, v \in NumberInputs :
            HandleInputChangeNumber(f, v))
    \/ (EditFree /\ \E n \in 1..MaxWrites : StartEdit(n))
    \/ CancelEdit
    \/ \E v \in NameInputs : HandleEditChangeText("name", v)
    \/ \E v \in DateInputs : HandleEditChangeText("expirationDate", v)
    \/ \E f \in {"quantity", "alarmDays"}, v \in NumberInputs : HandleEditChangeNumber(f, v)
    \/ AddItem
    \/ UpdateItem
    \/ \E w \in pending : AddDocOk(w)
    \/ \E w \in pending : UpdateDocOk(w)
    \/ \E w \in pending : ItemWriteFail(w)
    \/ \E w \in pending, ok \in BOOLEAN : NameWriteDone(w, ok)
    \/ NamesSnapshot
    \/ StoreSnapshot

InitForm ==
    GemInit /\ ClsIdle /\ now = 0 /\ AuthSignedIn /\ AlertLoaded /\ ImpInit /\ FormInit
SpecForm == InitForm /\ [][FormNext]_vars

\* The forms over a store that already holds two items, both in the list.
TwoDocs ==
    { StoredDoc(1, Payload([FilledItem EXCEPT !.expirationDate = <<1>>])),
      StoredDoc(2, Payload([FilledItem EXCEPT !.expirationDate = <<2>>])) }
InitTwoItems ==
    /\ GemInit /\ ClsIdle /\ now = 0 /\ AuthSignedIn /\ ImpInit
    /\ stockDocs = TwoDocs
    /\ nextId = 3
    /\ items = SortByDate(MapProject(DocsInOrder(TwoDocs)))
    /\ urgentItems = FilterUrgent(items, now)
    /\ loading = FALSE
    /\ errorMessage = NoMessage
    /\ showUrgentModal = FALSE
    /\ alertPhase = 1
    /\ newItem = EmptyDraft
    /\ editingItem = NoEdit
    /\ commonNames = {}
    /\ pending = {}
    /\ issued = 0
\* One name, one date and one quantity can be typed.
TwoItemsNext ==
    \/ (AddFormFree /\ HandleInputChangeText("name", <<" ", "a">>))
    \/ (AddFormFree /\ HandleInputChangeText("expirationDate", <<1>>))
    \/ (AddFormFree /\ HandleInputChangeNumber("quantity", <<2>>))
    \/ (EditFree /\ \E n \in 1..MaxWrites : StartEdit(n))
    \/ CancelEdit
    \/ HandleEditChangeNumber("quantity", <<2>>)
    \/ AddItem
    \/ UpdateItem
    \/ \E w \in pending : AddDocOk(w)
    \/ \E w \in pending : UpdateDocOk(w)
    \/ \E w \in pending : ItemWriteFail(w)
    \/ \E w \in pending, ok \in BOOLEAN : NameWriteDone(w, ok)
    \/ NamesSnapshot
    \/ StoreSnapshot
SpecTwoItems == InitTwoItems /\ [][TwoItemsNext]_vars

\* The import texts: up to MaxLines lines out of LineSet, joined by "\n".
MaxLines == 4
LineSet ==
    { <<>>,
      <<"a">>,
      <<" ", "a", ",", "b">>,
      <<"\t", "a">>,
      <<"a", "/", "b">>,
      <<"a", "_", "b">>,
      <<"a", ",", "b", "\t", "c">> }
RECURSIVE JoinLines(_)
JoinLines(ls) ==
    IF Len(ls) = 1 THEN ls[1] ELSE ls[1] \o <<"\n">> \o JoinLines(Tail(ls))
ImportTexts == {JoinLines(ls) : ls \in UNION {[1..n -> LineSet] : n \in 1..MaxLines}}
InitialStores ==
    { {}, {<<<<"a">>, <<"a">>>>}, {<<<<"a", "_", "b">>, <<"a", "/", "b">>>>} }

ImpDraw ==
    /\ showImportModal = TRUE
    /\ importData \in ImportTexts
    /\ impPc = "idle"
    /\ impBatch = <<>>
    /\ impErrorCount = 0
    /\ cnStore \in InitialStores
    /\ impText = <<>>
    /\ impDone = <<>>

ImpNext ==
    \/ HandleImport
    \/ ImportCommitOk
    \/ ImportCommitFail
    \/ OpenImportModal
    \/ (Len(impDone) > 0 /\ SetImportData(impText))

InitImport ==
    GemInit /\ ClsIdle /\ now = 0 /\ AuthSignedIn /\ AlertLoaded /\ ImpDraw /\ FormInit
SpecImport == InitImport /\ [][ImpNext]_vars

\* Snapshots of stock_items whose documents carry any category field: absent
\* (""), the first entry, another entry, or a text that is not an entry.
StoredCategories == {"", "General", "Quesos", "Verduras"}
CategoryDocs ==
    [id : 1..MaxItems, name : {<<"a">>}, quantity : {1},
     expirationDate : {<<d>> : d \in PoolDays}, alarmDays : {1},
     category : StoredCategories]
CategoryPool ==
    {s \in UNION {[1..n -> CategoryDocs] : n \in 0..MaxItems} :
        \A j \in 1..Len(s), k \in 1..Len(s) : j < k => s[j].id < s[k].id}
CategoryNext ==
    \/ \E docs \in CategoryPool : StockSnapshot(docs)
    \/ AckAlert
InitCategory ==
    GemInit /\ ClsIdle /\ now = 0 /\ AuthSignedIn /\ AlertLoaded /\ ImpInit /\ FormInit
SpecCategory == InitCategory /\ [][CategoryNext]_vars

\* A whole session, from the first render: identity, the subscriptions, a
\* name and a date typed into the forms, and the import of SessionText.
SessionNames == {<<" ">>, <<" ", "a", "/", "b">>}
SessionText == <<"a", "/", "b", "\n", "\n", " ", "c">>
SessionNext ==
    \/ AuthStateUser
    \/ AuthStateNull
    \/ AuthStateUserEarly
    \/ SignInOk
    \/ SignInFail
    \/ StoreSnapshot
    \/ StockSnapshotError
    \/ NamesSnapshot
    \/ (AddFormFree /\ \E v \in SessionNames : HandleInputChangeText("name", v))
    \/ (AddFormFree /\ HandleInputChangeText("expirationDate", <<1>>))
    \/ AddItem
    \/ (EditFree /\ \E n \in 1..MaxWrites : StartEdit(n))
    \/ \E v \in SessionNames : HandleEditChangeText("name", v)
    \/ UpdateItem
    \/ \E w \in pending : AddDocOk(w)
    \/ \E w \in pending : UpdateDocOk(w)
    \/ \E w \in pending : ItemWriteFail(w)
    \/ \E w \in pending, ok \in BOOLEAN : NameWriteDone(w, ok)
    \/ OpenImportModal
    \/ SetImportData(SessionText)
    \/ HandleImport
    \/ ImportCommitOk
    \/ ImportCommitFail
SpecSession == Init /\ [][SessionNext]_vars

----------------------------------------------------------------------------
(* Claims about the urgent alert, checked under Spec.                       *)

UrgentIds(s) == {s[n].id : n \in 1..Len(s)}

\* C1: with the alert acknowledged (showUrgentModal false) and the urgent set
\* non-empty, a snapshot that adds another urgent item to it does not set
\* showUrgentModal back to true.
C1_NoRetriggerOnGrowth ==
    [][ ( /\ ~showUrgentModal
          /\ urgentItems # <<>>
          /\ UrgentIds(urgentItems) \subseteq UrgentIds(urgentItems')
          /\ UrgentIds(urgentItems) # UrgentIds(urgentItems') )
        => ~showUrgentModal' ]_vars

\* C2: whenever urgentItems goes from empty to non-empty and loading is false
\* afterwards, showUrgentModal is true afterwards.
C2_FiresOnEmptyToNonEmpty ==
    [][ (urgentItems = <<>> /\ urgentItems' # <<>> /\ ~loading') => showUrgentModal' ]_vars
\* The alert was acknowledged, every urgent item then went away, and a later
\* snapshot brought an urgent item: the alert is pending again.
C2_Witness == alertPhase = 3 /\ showUrgentModal /\ ~loading

----------------------------------------------------------------------------
(* Claims about the name import, checked under SpecImport.                  *)

\* C8: two committed imports of the same text leave the same common_names
\* records as one.
C8_ImportIdempotent ==
    \A j \in 1..Len(impDone) : \A k \in 1..Len(impDone) :
        impDone[j].text = impDone[k].text => impDone[j].store = impDone[k].store
\* The same text committed twice, over a store that already held a record.
C8_Witness ==
    /\ Len(impDone) = 2
    /\ impDone[1].text = impDone[2].text
    /\ Cardinality(impDone[2].store) >= 2

NamesOfLines(lines) == {LineName(lines[n]) : n \in 1..Len(lines)} \ {<<>>}
RejectedOfLines(lines) == Cardinality({n \in 1..Len(lines) : LineName(lines[n]) = <<>>})
ImportReportOk(lines) ==
    /\ {impBatch[n][2] : n \in 1..Len(impBatch)} = NamesOfLines(lines)
    /\ Len(impBatch) = Cardinality(NamesOfLines(lines))
    /\ impErrorCount = RejectedOfLines(lines)
    /\ errorMessage.msg = "Importacion de nombres completada" =>
          (errorMessage.names = Len(impBatch) /\ errorMessage.ignored = impErrorCount)

\* The lines of a text: the pieces between its line feeds, a final line feed
\* ending the last line rather than opening an empty one.
LinesOfText(text) ==
    LET pieces == Split(text, "\n")
    IN  IF Len(pieces) > 1 /\ Last(pieces) = <<>>
        THEN SubSeq(pieces, 1, Len(pieces) - 1)
        ELSE pieces

\* C9: handleImport emits one upsert per distinct trimmed non-empty first
\* field of the lines of the import text, and the rejected count it reports is
\* the number of those lines whose trimmed first field is empty.
C9_UpsertsPerLineOfText ==
    impText # <<>> => ImportReportOk(LinesOfText(impText))

----------------------------------------------------------------------------
(* Claims about the Gemini caller, checked under SpecGemini.                *)

GeminiDone == gemPc = "idle" /\ Len(gemLog) > 0

\* C3: one invocation of generateGeminiContent issues at most 3 HTTP requests,
\* whatever the service answers.
C3_AtMostThreeRequests == Len(gemLog) <= 3
\* An invocation that ended after its third request.
C3_Witness == GeminiDone /\ Len(gemLog) = 3

\* C4: a response with a non-success status other than 429 ends the call on the
\* attempt that received it, with a failure result, no further attempt and no
\* sleep after it, whether or not its body parses as JSON.
C4_TerminalStatusEndsCall ==
    \A n \in 1..Len(gemLog) :
        IsTerminalStatus(gemLog[n]) =>
            /\ n = Len(gemLog)
            /\ gemPc = "idle"
            /\ Len(gemSleeps) < n
            /\ IsFailure(gemResult)

\* C5: the sleep after attempt k is 1000 * 2^(k-1) ms, happens only after a 429
\* or a network failure of attempt k, never after the third attempt, and
\* 429, 429, 200 succeeds on the third attempt after sleeps of 1000 and 2000 ms.
C5_BackoffSchedule ==
    /\ \A k \in 1..Len(gemSleeps) :
          /\ gemSleeps[k] = 1000 * 2^(k - 1)
          /\ k <= Len(gemLog)
          /\ Is429(gemLog[k]) \/ IsNet(gemLog[k])
    /\ Len(gemSleeps) <= 2
    /\ ( /\ GeminiDone
         /\ Len(gemLog) = 3
         /\ Is429(gemLog[1]) /\ Is429(gemLog[2])
         /\ gemLog[3].t = "http" /\ gemLog[3].status = 200 /\ gemLog[3].body = "text" )
       => (gemResult.tpl = "text" /\ gemSleeps = <<1000, 2000>>)

\* C6: over the invocations made so far, no two of the causes rate-limited,
\* network failure and non-retryable status ended in the same kind of result.
C6_CausesDistinguished ==
    \A p \in gemSeen : \A q \in gemSeen : p[1] # q[1] => p[2] # q[2]

----------------------------------------------------------------------------
\* C7: for a threshold T >= 1 and a date exactly d whole days after the
\* current moment, checkExpirationStatus returns days = d and the status
\* Expired iff d < 0, Warning iff 0 <= d <= T, OK iff d > T.
C7_ClassifyWholeDays ==
    \A d \in (-MaxOffsetDays - 1)..(MaxOffsetDays + 1) :
        (clsOut # NoResult /\ clsDate = now + d * MS_PER_DAY) =>
            /\ clsOut.days = d
            /\ (clsOut.status = "Expired") <=> (d < 0)
            /\ (clsOut.status = "Warning") <=> (0 <= d /\ d <= clsThreshold)
            /\ (clsOut.status = "OK") <=> (d > clsThreshold)
\* The three cases at their boundaries: d = -1, d = T and d = T + 1.
C7_Witness ==
    /\ clsOut # NoResult
    /\ clsDate = now + clsThreshold * MS_PER_DAY
    /\ clsOut.status = "Warning"
    /\ clsThreshold >= 2

----------------------------------------------------------------------------
(* Claims about the item forms, checked under SpecForm.                     *)

Positive(d) == d.quantity >= 1 /\ d.alarmDays >= 1
FilledDraft == [EmptyDraft EXCEPT !.name = <<"a">>, !.expirationDate = <<1>>]

\* C10: every add or update write handed to the store carries quantity >= 1
\* and alarmDays >= 1; both drafts hold quantity >= 1 and alarmDays >= 1
\* whatever was typed (0, a negative number and a non-number become 1); and
\* the validation of addItem and updateItem refuses a draft whose quantity or
\* alarmDays is not positive.
C10_WritesPositive ==
    /\ \A w \in pending : w.op \in {"add", "update"} => Positive(w.doc)
    /\ \A d \in stockDocs : Positive(d)
    /\ Positive(newItem)
    /\ editingItem # NoEdit => Positive(editingItem)
    /\ \A f \in {"quantity", "alarmDays"}, q \in {0, -1} :
          DraftRefused([FilledDraft EXCEPT ![f] = q])
\* An item stored with quantity 2 and alarmDays 2 was opened for editing, both
\* fields were overtyped with 0, a negative number or a non-number, and the
\* update was submitted: the write carries 1 and 1.
C10_Witness ==
    \E w \in pending, d \in stockDocs :
        /\ w.op = "update" /\ w.id = d.id
        /\ d.quantity = 2 /\ d.alarmDays = 2
        /\ w.doc.quantity = 1 /\ w.doc.alarmDays = 1

----------------------------------------------------------------------------
\* C11: every add or update write handed to the store, and every stored
\* stock item, has a name that is non-empty after trimming.
C11_WrittenNamesNonEmpty ==
    /\ \A w \in pending : w.op \in {"add", "update"} => Trim(w.doc.name) # <<>>
    /\ \A d \in stockDocs : Trim(d.name) # <<>>

----------------------------------------------------------------------------
\* C12: at most one invocation of generateGeminiContent is in flight, and
\* geminiLoading is true exactly while one is.
C12_SingleFlight ==
    /\ gemInFlight <= 1
    /\ geminiLoading <=> (gemInFlight = 1)
    /\ geminiLoading <=> (gemPc # "idle")
\* An invocation is asleep between two attempts, the buttons disabled.
C12_Witness == gemInFlight = 1 /\ geminiLoading /\ gemPc = "sleep" /\ Len(gemLog) = 2

----------------------------------------------------------------------------
\* C13: while userId is unset no subscription to stock_items or common_names
\* has been opened and no store write (item write, name write, import batch)
\* is in flight.
C13_NothingWithoutUser ==
    userId = "none" =>
        /\ stockSub = "none" /\ namesSub = "none"
        /\ pending = {} /\ impPc = "idle"
\* The sign-in has resolved (isAuthReady) before the listener delivered the
\* user: the subscription effects ran and returned without subscribing.
C13_Witness == isAuthReady /\ userId = "none" /\ stockSub = "none" /\ PastLoadingScreen

----------------------------------------------------------------------------
ImportFailed == errorMessage.msg = "Error grave al guardar los nombres comunes en Firestore."

\* C14: the step in which the batch commit of an import fails leaves the
\* common_names store, the import text and the import dialog as they were,
\* sets the one total-failure message and sets loading to false.
C14_CommitFailureLeavesAll ==
    [][ (impPc = "commit" /\ impPc' = "idle" /\ Len(impDone') = Len(impDone)) =>
            /\ cnStore' = cnStore
            /\ importData' = importData /\ showImportModal' = showImportModal
            /\ ImportFailed' /\ errorMessage'.names = 0 /\ errorMessage'.ignored = 0
            /\ ~loading' ]_vars
\* A failed commit of a batch of two names, none of them in the store.
C14_Witness ==
    /\ ImportFailed /\ impPc = "idle" /\ ~loading
    /\ Len(impBatch) = 2 /\ impDone = <<>>
    /\ \A n \in 1..Len(impBatch) : impBatch[n] \notin cnStore
    /\ showImportModal /\ importData = impText

----------------------------------------------------------------------------
\* C15: every invocation of generateGeminiContent returns, and in the step in
\* which it returns geminiResponse is a text (not null), geminiLoading is
\* false and the result dialog is shown, whatever the fetches answered.
C15_TerminatesWithText ==
    /\ [][ (gemPc # "idle" /\ gemPc' = "idle") =>
               /\ geminiResponse' # NullResponse
               /\ geminiResponse' = gemResult'
               /\ ~geminiLoading' /\ showGeminiModal' ]_vars
    /\ (gemPc # "idle") ~> (gemPc = "idle")
\* An invocation whose three responses all had an unparseable body has
\* returned with the connection-error text.
C15_Witness ==
    /\ GeminiDone /\ Len(gemLog) = 3
    /\ \A n \in 1..3 : gemLog[n].t = "http" /\ JsonThrows(gemLog[n])
    /\ geminiResponse = ConnectionText /\ ~geminiLoading /\ showGeminiModal

----------------------------------------------------------------------------
\* C16: every item of the items projection has a category that is an entry of
\* CATEGORIES.
C16_CategoryInList ==
    \A n \in 1..Len(items) : \E c \in 1..Len(CATEGORIES) : items[n].category = CATEGORIES[c]

----------------------------------------------------------------------------
\* C17: urgentItems is always the list of the items whose status at the
\* current moment is Warning or Expired.
C17_UrgentSetIsCurrent == urgentItems = FilterUrgent(items, now)

----------------------------------------------------------------------------
SeqSet(s) == {s[n] : n \in 1..Len(s)}

\* C18: uniqueItemNames has no duplicate entry, is sorted ascending, contains
\* exactly the trimmed item names and the curated names, is empty when both
\* inputs are empty, and leaves both inputs as they were.
C18_UnifySortedDistinct ==
    unify.done =>
        /\ \A j \in 1..Len(unify.out), k \in 1..Len(unify.out) :
              j # k => unify.out[j] # unify.out[k]
        /\ \A j \in 1..Len(unify.out), k \in 1..Len(unify.out) :
              j < k => NameBefore(unify.out[j], unify.out[k])
        /\ SeqSet(unify.out) = {Trim(x) : x \in SeqSet(unify.stock)} \cup SeqSet(unify.curated)
        /\ (unify.stock = <<>> /\ unify.curated = <<>>) => unify.out = <<>>
        /\ unify.stockAfter = unify.stock /\ unify.curatedAfter = unify.curated
\* Items " a" and "b ", curated names "b" and "a": the list is a, b.
C18_Witness ==
    /\ unify.done
    /\ unify.stock = << <<"b", " ">>, <<" ", "a">> >>
    /\ unify.curated = << <<"b">>, <<"a">> >>
    /\ unify.out = << <<"a">>, <<"b">> >>

----------------------------------------------------------------------------
\* C19: every record of common_names has, as its key, its stored name with
\* every "/" replaced by "_", and a stored name that is non-empty and has no
\* leading or trailing whitespace.
C19_CommonNameRecords ==
    \A p \in cnStore :
        /\ Len(p[1]) = Len(p[2])
        /\ \A n \in 1..Len(p[2]) : p[1][n] = (IF p[2][n] = "/" THEN "_" ELSE p[2][n])
        /\ p[2] # <<>>
        /\ Head(p[2]) \notin Whitespace /\ Last(p[2]) \notin Whitespace
\* The name " a/b" typed into a form was stored as a/b under the key a_b,
\* next to the name c of the imported line " c".
C19_Witness ==
    /\ <<<<"a", "_", "b">>, <<"a", "/", "b">>>> \in cnStore
    /\ <<<<"c">>, <<"c">>>> \in cnStore
    /\ \E d \in stockDocs : d.name = <<"a", "/", "b">>

----------------------------------------------------------------------------
\* C20: once userId is set, the stock_items subscription is eventually opened
\* and loading is eventually false.
C20_LoadingEnds == (userId # "none") ~> (stockSub # "none" /\ ~loading)

----------------------------------------------------------------------------
\* C21: a step of handleImport (its start, or the success or failure of its
\* commit) leaves showUrgentModal as it was.
C21_ImportKeepsAlertFlag ==
    [][ (impPc' # impPc) => (showUrgentModal' = showUrgentModal) ]_vars

----------------------------------------------------------------------------
\* C22: while the addDoc of a submitted draft is in flight, no second addDoc
\* carrying the same draft is in flight.
C22_OneAddPerDraft ==
    \A w \in pending : \A x \in pending :
        (w.op = "add" /\ x.op = "add" /\ w.doc = x.doc) => w = x

----------------------------------------------------------------------------
\* C23: the step in which an item write leaves the writes in flight changes
\* editingItem only if the edit session is on the item that was written, and
\* changes newItem only if the draft is still the one that was submitted.
C23_CompletionKeepsOtherDrafts ==
    [][ \A w \in pending :
          w \notin pending' =>
            /\ (w.op = "update" /\ editingItem # NoEdit /\ editingItem.id # w.id)
                  => editingItem' = editingItem
            /\ (w.op = "add" /\ Payload(newItem) # w.doc) => newItem' = newItem ]_vars

====
